---- MODULE Spec2Model ----
(***************************************************************************)
(* ScrollPicker (react-native-wheel-scrollview-picker): the function       *)
(* component of src/unnamed/part_000, its React state, the closures its    *)
(* handlers and timers capture, and the ScrollView that delivers events.   *)
(*                                                                         *)
(* React state is modelled as React keeps it: a handler reads the values   *)
(* of the render that created it (selectedIndex, isScrollTo, dragStarted,  *)
(* momentumStarted, timer) and its setX calls go to the update queue       *)
(* (queued); Render commits the queue.  A setTimeout callback keeps the    *)
(* closure of the render that scheduled it.                                *)
(***************************************************************************)
EXTENDS Integers, Sequences, FiniteSets, TLC

VARIABLES
    \* props
    itemHeight, data, propSelectedIndex, changeValueWhileDragging, platformOS,
    containerHeight, style, containerStyle,
    \* component state as seen by the handlers of the current render
    selectedIndex, isScrollTo, dragStarted, momentumStarted, timer,
    \* state updates requested by setX and not rendered yet, and the number
    \* of handlers that ran since the state last matched the render
    queued, batch,
    \* refs and derived values
    initialized, wrapperHeight,
    \* the JS timers that are scheduled and have not fired nor been cleared,
    \* and the number of drags so far
    timers, drags,
    \* the native ScrollView
    offset, dragging, momentum, scrollingTo,
    \* what the last step did: the scrollFix it ran, the onValueChange calls
    \* it made, the handler that ran
    lastFix, calls, lastEvent

vars == <<itemHeight, data, propSelectedIndex, changeValueWhileDragging,
          platformOS, containerHeight, style, containerStyle,
          selectedIndex, isScrollTo, dragStarted, momentumStarted, timer,
          queued, batch, initialized, wrapperHeight, timers, drags,
          offset, dragging, momentum, scrollingTo, lastFix, calls, lastEvent>>

props == <<itemHeight, data, propSelectedIndex, changeValueWhileDragging,
           platformOS, containerHeight, style, containerStyle>>

rendered == <<selectedIndex, isScrollTo, dragStarted, momentumStarted, timer>>

native == <<offset, dragging, momentum, scrollingTo>>

----------------------------------------------------------------------------
\* Bounds

MaxData == 2

MaxDrags == 2

MaxBatch == 3

ItemHeights == {2, 3}

LayoutItemHeights == {3, 30}

LayoutHeights == {40, 200}

\* data[i] outside the array, as a value handed to onValueChange
Undefined == "undefined"

\* the values of the data prop: prefixes of AllData
AllData == <<"a", "b", "c", "d", "e">>

----------------------------------------------------------------------------
\* Optional numbers (selectedIndex?: number, containerHeight?: number)

None == [def |-> FALSE, v |-> 0]

Some(n) == [def |-> TRUE, v |-> n]

\* timer: NodeJS.Timeout | null; ids are positive, null is 0
NoTimer == 0

\* no programmatic scroll is in flight
NoTarget == -1

NoScroll == [y |-> NoTarget, by |-> "none"]

----------------------------------------------------------------------------
\* Pure functions

Max(a, b) == IF a >= b THEN a ELSE b

Min(a, b) == IF a <= b THEN a ELSE b

\* Math.floor in the place of Math.round
MathFloor(y, h) == y \div h

\* Math.round(y / h) for y >= 0, h > 0: halves round up
MathRound(y, h) == (2 * y + h) \div (2 * h)

constrainIndex(index, dataLength) ==
    Max(0, Min(IF index.def THEN index.v ELSE 0, dataLength - 1))

\* data[i] in JavaScript: undefined outside the array
At(d, i) == IF i \in 0..(Len(d) - 1) THEN d[i + 1] ELSE Undefined

\* A style prop is undefined, or an object that may have a height key whose
\* value is a number, a numeric string or a non-numeric string ("50%").
NoStyle == [t |-> "undefined", v |-> 0]

NoHeightKey == [t |-> "nokey", v |-> 0]

NumHeight(n) == [t |-> "number", v |-> n]

StrHeight(n) == [t |-> "numeric string", v |-> n]

PercentHeight == [t |-> "string", v |-> 0]

isViewStyle(s) == s.t \notin {"undefined", "nokey"}

isNumeric(s) == s.t \in {"number", "numeric string"}

\* a || b on numbers: 0 and undefined are falsy; the result is a number
OrElse(a, b) == IF a = 0 THEN b ELSE a

WrapperHeight(ch, s, h) ==
    OrElse(OrElse(IF ch.def THEN ch.v ELSE 0,
                  IF isViewStyle(s) /\ isNumeric(s) THEN s.v ELSE 0),
           h * 5)

\* The ScrollView's content is a spacer of (wrapperHeight - itemHeight) / 2
\* above and below the items; bounces = false keeps the offset in the content.
MaxOffset == Max(0, (wrapperHeight - itemHeight) + Len(data) * itemHeight
                    - wrapperHeight)

Clamp(y) == Min(Max(y, 0), MaxOffset)

----------------------------------------------------------------------------
\* scrollFix: what one call does, given the event's offset, the selectedIndex
\* its closure holds and the setScrollTo argument.

NoFix == [ran |-> FALSE, y |-> 0, snapping |-> FALSE, index |-> 0,
          scrollTo |-> NoTarget, setIsScrollTo |-> FALSE, changed |-> FALSE]

scrollFix(y, closureIndex, setScrollTo) ==
    LET h == itemHeight
        _selectedIndex == MathRound(y, h)
        _y == _selectedIndex * h
        requests == setScrollTo /\ _y # y
    IN  [ran |-> TRUE, y |-> y, snapping |-> setScrollTo,
         index |-> _selectedIndex,
         scrollTo |-> IF requests THEN _y ELSE NoTarget,
         setIsScrollTo |-> requests /\ platformOS = "ios",
         changed |-> closureIndex # _selectedIndex]

\* sView.current.scrollTo({y}) animated: the ScrollView starts moving to y,
\* unless it is there already and is not moving
ScrollTo(y, by) ==
    IF Clamp(y) = offset /\ scrollingTo = NoScroll
    THEN NoScroll ELSE [y |-> Clamp(y), by |-> by]

\* the state updates, the onValueChange call and the scrollTo of one scrollFix
\* call, on top of the updates q the handler has queued itself
Apply(q, fix) ==
    /\ queued' = [q EXCEPT
                    !.isScrollTo = IF fix.setIsScrollTo THEN TRUE ELSE @,
                    !.selectedIndex = IF fix.changed THEN fix.index ELSE @]
    /\ calls' = IF fix.changed
                THEN <<[index |-> fix.index, value |-> At(data, fix.index)]>>
                ELSE <<>>
    /\ lastFix' = fix

----------------------------------------------------------------------------
\* The component

\* the data of the pickers that are scrolled: no item, one item, two items
ScrollData == {SubSeq(AllData, 1, n) : n \in {0, 1, 2}}

\* the props of the scrolling picker: selectedIndex is left out, the height
\* props are left out
InitProps ==
    /\ itemHeight \in ItemHeights
    /\ data \in ScrollData
    /\ propSelectedIndex = None
    /\ changeValueWhileDragging \in BOOLEAN
    /\ platformOS \in {"ios", "android"}
    /\ containerHeight = None
    /\ style = NoStyle
    /\ containerStyle = NoStyle

\* the props of a mount: any selectedIndex, in range or not
MountProps ==
    /\ itemHeight \in ItemHeights
    /\ data \in {SubSeq(AllData, 1, n) : n \in 0..MaxData}
    /\ propSelectedIndex \in {None} \cup {Some(i) : i \in (-1)..(MaxData + 1)}
    /\ changeValueWhileDragging \in BOOLEAN
    /\ platformOS \in {"ios", "android"}
    /\ containerHeight = None
    /\ style = NoStyle
    /\ containerStyle = NoStyle

Styles ==
    {NoStyle, NoHeightKey, PercentHeight}
        \cup {NumHeight(n) : n \in LayoutHeights}
        \cup {StrHeight(n) : n \in LayoutHeights}

\* the props that decide the height of the picker
LayoutProps ==
    /\ itemHeight \in LayoutItemHeights
    /\ data = SubSeq(AllData, 1, MaxData)
    /\ propSelectedIndex = None
    /\ changeValueWhileDragging = TRUE
    /\ platformOS = "ios"
    /\ containerHeight \in {None} \cup {Some(n) : n \in LayoutHeights}
    /\ style \in Styles
    /\ containerStyle \in Styles

InitState ==
    /\ selectedIndex = constrainIndex(propSelectedIndex, Len(data))
    /\ isScrollTo = FALSE
    /\ dragStarted = FALSE
    /\ momentumStarted = FALSE
    /\ timer = NoTimer
    /\ queued = [selectedIndex |-> selectedIndex, isScrollTo |-> FALSE,
                 dragStarted |-> FALSE, momentumStarted |-> FALSE,
                 timer |-> NoTimer]
    /\ batch = 0
    /\ initialized = FALSE
    /\ wrapperHeight = WrapperHeight(containerHeight, style, itemHeight)
    /\ timers = {}
    /\ drags = 0
    /\ offset = 0
    /\ dragging = FALSE
    /\ momentum = "none"
    /\ scrollingTo = NoScroll
    /\ lastFix = NoFix
    /\ calls = <<>>
    /\ lastEvent = "mount"

Init == InitProps /\ InitState

\* initialize without the comparison of the prop with the component's
\* selectedIndex
initializeAlways ==
    /\ ~initialized
    /\ initialized' = TRUE
    /\ calls' = IF propSelectedIndex.def
                THEN <<[index |-> selectedIndex,
                        value |-> At(data, selectedIndex)]>>
                ELSE <<>>
    /\ offset' = Clamp(itemHeight * selectedIndex)
    /\ lastFix' = NoFix
    /\ lastEvent' = "initialize"
    /\ UNCHANGED <<props, rendered, queued, batch, wrapperHeight, timers, drags,
                   dragging, momentum, scrollingTo>>

\* useEffect(function initialize() ...)
initialize ==
    /\ ~initialized
    /\ initialized' = TRUE
    /\ calls' = IF propSelectedIndex.def /\ propSelectedIndex.v # selectedIndex
                THEN <<[index |-> selectedIndex,
                        value |-> At(data, selectedIndex)]>>
                ELSE <<>>
    \* scrollToIndex({index: selectedIndex, animated: false})
    /\ offset' = Clamp(itemHeight * selectedIndex)
    /\ lastFix' = NoFix
    /\ lastEvent' = "initialize"
    /\ UNCHANGED <<props, rendered, queued, batch, wrapperHeight, timers, drags,
                   dragging, momentum, scrollingTo>>

\* No state update is waiting for a render.  React schedules the render when
\* the handler returns, so it runs before what comes tens of milliseconds
\* later: the 50 ms timer, the end of an animated scrollTo, a press.  Native
\* scroll events can be handled back to back, before the render.
Settled ==
    queued = [selectedIndex |-> selectedIndex, isScrollTo |-> isScrollTo,
              dragStarted |-> dragStarted,
              momentumStarted |-> momentumStarted, timer |-> timer]

\* one more handler has run on the closures of the current render
Handled ==
    /\ batch < MaxBatch
    /\ batch' = IF queued' = [selectedIndex |-> selectedIndex,
                              isScrollTo |-> isScrollTo,
                              dragStarted |-> dragStarted,
                              momentumStarted |-> momentumStarted,
                              timer |-> timer]
                THEN 0 ELSE batch + 1

\* React re-renders: the queued updates become the state the handlers see
Render ==
    /\ initialized
    /\ ~Settled
    /\ selectedIndex' = queued.selectedIndex
    /\ isScrollTo' = queued.isScrollTo
    /\ dragStarted' = queued.dragStarted
    /\ momentumStarted' = queued.momentumStarted
    /\ timer' = queued.timer
    /\ batch' = 0
    /\ lastFix' = NoFix
    /\ calls' = <<>>
    /\ lastEvent' = "render"
    /\ UNCHANGED <<props, queued, initialized, wrapperHeight, timers, drags,
                   native>>

\* timer && clearTimeout(timer), with the timer of the handler's render; the
\* timers left pending have seen a drag or a momentum scroll begin
ClearTimeout(superseding) ==
    {[t EXCEPT !.superseded = @ \/ superseding] : t \in {u \in timers : u.id # timer}}

onScrollBeginDrag ==
    /\ initialized /\ ~dragging
    \* content that fits the picker does not scroll
    /\ MaxOffset > 0
    /\ drags < MaxDrags
    /\ drags' = drags + 1
    /\ dragging' = TRUE
    /\ scrollingTo' = NoScroll
    /\ queued' = [queued EXCEPT !.dragStarted = TRUE,
                    !.isScrollTo = IF platformOS = "ios" THEN FALSE ELSE @]
    /\ timers' = ClearTimeout(TRUE)
    /\ lastFix' = NoFix
    /\ calls' = <<>>
    /\ lastEvent' = "onScrollBeginDrag"
    /\ Handled
    /\ UNCHANGED <<props, rendered, initialized, wrapperHeight, offset, momentum>>

\* a timer id no earlier setTimeout returned: the number of the drag that ended
FreshTimer == drags

onScrollEndDrag ==
    /\ initialized /\ dragging
    /\ dragging' = FALSE
    /\ momentum' = "released"
    /\ queued' = [queued EXCEPT !.dragStarted = FALSE, !.timer = FreshTimer]
    \* setTimeout(() => !momentumStarted && scrollFix(_e), 50)
    /\ timers' = ClearTimeout(FALSE) \cup
                   {[id |-> FreshTimer, momentumStarted |-> momentumStarted,
                     selectedIndex |-> selectedIndex, y |-> offset,
                     superseded |-> FALSE]}
    /\ lastFix' = NoFix
    /\ calls' = <<>>
    /\ lastEvent' = "onScrollEndDrag"
    /\ Handled
    /\ UNCHANGED <<props, rendered, initialized, wrapperHeight, drags, offset,
                   scrollingTo>>

onMomentumScrollBegin ==
    /\ initialized /\ ~dragging /\ momentum = "released"
    /\ momentum' = "active"
    /\ queued' = [queued EXCEPT !.momentumStarted = TRUE]
    /\ timers' = ClearTimeout(TRUE)
    /\ lastFix' = NoFix
    /\ calls' = <<>>
    /\ lastEvent' = "onMomentumScrollBegin"
    /\ Handled
    /\ UNCHANGED <<props, rendered, initialized, wrapperHeight, drags, offset,
                   dragging, scrollingTo>>

\* onMomentumScrollEnd without the isScrollTo test
MomentumScrollEndUnguarded(otherwise) ==
    LET fix == IF ~dragStarted
               THEN scrollFix(offset, selectedIndex, TRUE) ELSE NoFix
    IN  /\ Apply([queued EXCEPT !.momentumStarted = FALSE], fix)
        /\ scrollingTo' = IF fix.scrollTo # NoTarget
                          THEN ScrollTo(fix.scrollTo, "snap") ELSE otherwise

\* the body of onMomentumScrollEnd for an event at the current offset;
\* otherwise is the programmatic scroll left when scrollFix requests none
MomentumScrollEnd(otherwise) ==
    LET fix == IF ~isScrollTo /\ ~dragStarted
               THEN scrollFix(offset, selectedIndex, TRUE) ELSE NoFix
    IN  /\ Apply([queued EXCEPT !.momentumStarted = FALSE], fix)
        /\ scrollingTo' = IF fix.scrollTo # NoTarget
                          THEN ScrollTo(fix.scrollTo, "snap") ELSE otherwise

\* the momentum scroll that followed a drag stops
onMomentumScrollEnd ==
    /\ initialized /\ momentum = "active"
    /\ momentum' = "none"
    /\ MomentumScrollEnd(scrollingTo)
    /\ lastEvent' = "onMomentumScrollEnd"
    /\ Handled
    /\ UNCHANGED <<props, rendered, initialized, wrapperHeight, timers, drags,
                   offset, dragging>>

\* an animated scrollTo arrives at its target; iOS then sends
\* onMomentumScrollEnd, Android sends nothing
ScrollToEnd ==
    /\ initialized /\ ~dragging /\ Settled
    /\ scrollingTo # NoScroll /\ offset = scrollingTo.y
    /\ IF platformOS = "ios"
       THEN /\ MomentumScrollEnd(NoScroll)
            /\ momentum' = IF momentum = "active" THEN "none" ELSE momentum
            /\ lastEvent' = "onMomentumScrollEnd after " \o scrollingTo.by
            /\ Handled
       ELSE /\ scrollingTo' = NoScroll
            /\ lastFix' = NoFix
            /\ calls' = <<>>
            /\ lastEvent' = "scrollTo end"
            /\ UNCHANGED <<queued, batch, momentum>>
    /\ UNCHANGED <<props, rendered, initialized, wrapperHeight, timers, drags,
                   offset, dragging>>

\* where the ScrollView can move next: anywhere under the finger or in a
\* momentum scroll, towards the target in a programmatic scroll
NextOffsets ==
    IF dragging \/ momentum = "active"
    THEN (0..MaxOffset) \ {offset}
    ELSE IF scrollingTo # NoScroll
    THEN {y \in 0..MaxOffset : /\ y # offset
                               /\ Min(offset, scrollingTo.y) <= y
                               /\ y <= Max(offset, scrollingTo.y)}
    ELSE {}

\* the ScrollView moves; onScroll is attached when changeValueWhileDragging
onScroll ==
    /\ initialized
    /\ \E y \in NextOffsets :
        /\ offset' = y
        /\ IF changeValueWhileDragging
           THEN /\ Apply(queued, scrollFix(y, selectedIndex, FALSE))
                /\ lastEvent' = "onScroll"
                /\ Handled
           ELSE /\ lastFix' = NoFix
                /\ calls' = <<>>
                /\ lastEvent' = "scroll"
                /\ UNCHANGED <<queued, batch>>
    /\ UNCHANGED <<props, rendered, initialized, wrapperHeight, timers, drags,
                   dragging, momentum, scrollingTo>>

\* renderItem's onPress: scrollToIndex({index, animated: true})
onPress ==
    /\ initialized /\ ~dragging /\ momentum # "active" /\ Settled
    /\ \E index \in 0..(Len(data) - 1) :
        scrollingTo' = ScrollTo(itemHeight * index, "press")
    /\ lastFix' = NoFix
    /\ calls' = <<>>
    /\ lastEvent' = "onPress"
    /\ UNCHANGED <<props, rendered, queued, batch, initialized, wrapperHeight,
                   timers, drags, offset, dragging, momentum>>

\* the callback of setTimeout(() => !momentumStarted && scrollFix(_e), 50),
\* with the momentumStarted, the scrollFix and the event of its render
TimerFired(t) ==
    LET fix == IF ~t.momentumStarted
               THEN scrollFix(t.y, t.selectedIndex, TRUE) ELSE NoFix
    IN  /\ timers' = timers \ {t}
        /\ Apply(queued, fix)
        /\ scrollingTo' = IF fix.scrollTo # NoTarget
                          THEN ScrollTo(fix.scrollTo, "snap") ELSE scrollingTo
        /\ lastEvent' = IF t.superseded THEN "superseded timer" ELSE "timer"
        /\ Handled

onTimer ==
    /\ Settled
    /\ \E t \in timers : TimerFired(t)
    /\ UNCHANGED <<props, rendered, initialized, wrapperHeight, drags, offset,
                   dragging, momentum>>

Next ==
    \/ initialize
    \/ Render
    \/ onScrollBeginDrag
    \/ onScrollEndDrag
    \/ onMomentumScrollBegin
    \/ onMomentumScrollEnd
    \/ ScrollToEnd
    \/ onScroll
    \/ onPress
    \/ onTimer

Spec == Init /\ [][Next]_vars

\* the mount alone, over every selectedIndex prop
MountInit == MountProps /\ InitState

MountSpec == MountInit /\ [][initialize]_vars

\* the first render and the mount, over the height props
LayoutInit == LayoutProps /\ InitState

LayoutSpec == LayoutInit /\ [][initialize]_vars

----------------------------------------------------------------------------
\* Properties

Abs(x) == IF x < 0 THEN 0 - x ELSE x

\* the item boundaries of the content
Boundaries == {k * itemHeight : k \in 0..(MaxOffset \div itemHeight + 1)}

\* y / h rounds to k
RoundsTo(y, h, k) == (2 * k - 1) * h <= 2 * y /\ 2 * y < (2 * k + 1) * h

\* no drag, no momentum scroll, no timer, no programmatic scroll, no render
\* pending
AtRest ==
    /\ initialized /\ ~dragging /\ momentum # "active"
    /\ timers = {} /\ scrollingTo = NoScroll /\ Settled

ValidCall(c) ==
    /\ c.index \in 0..(Len(data) - 1)
    /\ c.value = data[c.index + 1]

\* C1: a snapping scrollFix (from onMomentumScrollEnd or from the timer)
\* resolves the index k with k - 1/2 <= y/h < k + 1/2, whose boundary k * h is
\* an item boundary nearest to y; it requests a scroll to exactly k * h when y
\* is not there, and every target it requests is a multiple of itemHeight.
C1_SnapsToNearestBoundary ==
    (lastFix.ran /\ lastFix.snapping) =>
        LET y == lastFix.y
            k == lastFix.index
            target == k * itemHeight
        IN  /\ RoundsTo(y, itemHeight, k)
            /\ \A b \in Boundaries : Abs(y - target) <= Abs(y - b)
            /\ lastFix.scrollTo = IF y # target THEN target ELSE NoTarget
            /\ lastFix.scrollTo # NoTarget => lastFix.scrollTo % itemHeight = 0

\* a snapping scrollFix asked for a scroll back to the boundary below y
C1_Witness ==
    /\ lastFix.ran /\ lastFix.snapping
    /\ lastFix.scrollTo # NoTarget
    /\ lastFix.scrollTo < lastFix.y

C2_FixSetsAndReports ==
    [][(lastFix'.ran /\ lastFix'.index # queued.selectedIndex) =>
            /\ queued'.selectedIndex = lastFix'.index
            /\ Len(calls') = 1
            /\ calls'[1].index = lastFix'.index]_vars

C2_CallsAreValid ==
    \A i \in 1..Len(calls) : ValidCall(calls[i])

\* C2: a scrollFix that resolves an index other than the current selectedIndex
\* sets selectedIndex to it and calls onValueChange once with it; every
\* onValueChange call, the one at mount included, reports a valid index of
\* data and the element of data at that index.
C2_ReportsResolvedIndexAndItsValue ==
    C2_FixSetsAndReports /\ []C2_CallsAreValid

\* C3: at rest (no drag, no momentum scroll, no timer, no programmatic scroll)
\* the offset is selectedIndex * itemHeight, so the item rendered as selected
\* is the centered one.
C3_AtRestSelectedIsCentered ==
    AtRest => offset = selectedIndex * itemHeight

\* C4: with changeValueWhileDragging = false no onValueChange call is made
\* while a drag is in progress.
C4_NoChangeWhileDragging ==
    (~changeValueWhileDragging /\ Len(calls) > 0) => ~dragging

\* C5: with changeValueWhileDragging = true every onScroll event whose offset
\* rounds to an index other than the current selectedIndex sets selectedIndex
\* to that index and calls onValueChange with it.
C5_EveryScrolledChangeIsReported ==
    [][(changeValueWhileDragging /\ lastEvent' = "onScroll"
            /\ ~RoundsTo(offset', itemHeight, queued.selectedIndex)) =>
        /\ RoundsTo(offset', itemHeight, queued'.selectedIndex)
        /\ Len(calls') = 1
        /\ calls'[1].index = queued'.selectedIndex]_vars

\* C6: at most one debounce timer is pending, whatever events were handled
\* and whether or not the component re-rendered between them.
C6_AtMostOneTimer ==
    Cardinality(timers) <= 1

\* C7: on iOS the onMomentumScrollEnd that ends a snapping scrollTo does not
\* run scrollFix, so it requests no further scroll; isScrollTo, once set, is
\* reset by onScrollBeginDrag only.
C7_SnapEndDoesNotFixAgain ==
    /\ [](lastEvent = "onMomentumScrollEnd after snap" =>
            ~lastFix.ran /\ scrollingTo = NoScroll)
    /\ [][(queued.isScrollTo /\ ~queued'.isScrollTo) =>
            lastEvent' = "onScrollBeginDrag"]_vars

\* the momentum end of a snap has been handled with isScrollTo set
C7_Witness ==
    /\ platformOS = "ios"
    /\ lastEvent = "onMomentumScrollEnd after snap"
    /\ isScrollTo
    /\ offset % itemHeight = 0

\* the height of a container style, when it has a numeric one
StyleHeight(s) == IF isViewStyle(s) /\ isNumeric(s) THEN Some(s.v) ELSE None

\* C8: wrapperHeight is containerHeight when that prop is given, otherwise the
\* height of containerStyle, otherwise itemHeight * 5.
C8_WrapperHeightFallbacks ==
    wrapperHeight =
        IF containerHeight.def THEN containerHeight.v
        ELSE IF StyleHeight(containerStyle).def
        THEN StyleHeight(containerStyle).v
        ELSE itemHeight * 5

\* C9: a timer that saw onMomentumScrollBegin or onScrollBeginDrag after its
\* onScrollEndDrag does not run scrollFix when it fires.
C9_SupersededTimerDoesNotFix ==
    lastEvent = "superseded timer" => ~lastFix.ran

\* C10: a timer that saw neither a momentum scroll nor a drag begin runs a
\* snapping scrollFix with the offset of its drag end, whatever momentumStarted
\* was in the render that handled the drag end.
C10_TimerSnapsAtDragEndOffset ==
    [][lastEvent' = "timer" =>
        \E t \in timers \ timers' :
            lastFix'.ran /\ lastFix'.snapping /\ lastFix'.y = t.y]_vars

\* C11: no scrollFix requests a snapping scrollTo while a drag is in progress,
\* that is between onScrollBeginDrag and the matching onScrollEndDrag.
C11_NoSnapWhileDragging ==
    (lastFix.ran /\ lastFix.scrollTo # NoTarget) => ~dragging

\* C12: for every index prop (undefined, negative, in range, past the end) and
\* every data length from 0 up, constrainIndex, whose result is the initial
\* selectedIndex, returns a value between 0 and dataLength - 1 inclusive;
\* undefined is treated as index 0 and an index in range is returned unchanged.
C12_ConstrainIndexInRange ==
    LET dataLength == Len(data)
        index == IF propSelectedIndex.def THEN propSelectedIndex.v ELSE 0
    IN  /\ 0 <= selectedIndex /\ selectedIndex <= dataLength - 1
        /\ index \in 0..(dataLength - 1) => selectedIndex = index

\* C13: at mount onValueChange is called, once and with the constrained index
\* and the element of data at it, exactly when the selectedIndex prop is
\* defined and differs from the constrained initial selectedIndex; no call is
\* made before the mount, nor when the prop is undefined or in range.
C13_MountCallIffPropDiffers ==
    LET constrained == constrainIndex(propSelectedIndex, Len(data))
        differs == propSelectedIndex.def /\ propSelectedIndex.v # constrained
        inRange == propSelectedIndex.v \in 0..(Len(data) - 1)
    IN  /\ lastEvent = "mount" => calls = <<>>
        /\ lastEvent = "initialize" =>
            /\ selectedIndex = constrained
            /\ calls = IF differs
                       THEN <<[index |-> constrained,
                               value |-> At(data, constrained)]>>
                       ELSE <<>>
            /\ (~propSelectedIndex.def \/ inRange) => calls = <<>>

\* a selectedIndex prop past the end of data was reported back as the last
\* index, with the last item
C13_Witness ==
    /\ lastEvent = "initialize"
    /\ Len(data) > 0
    /\ propSelectedIndex.def /\ propSelectedIndex.v > Len(data) - 1
    /\ Len(calls) = 1
    /\ calls[1] = [index |-> Len(data) - 1, value |-> data[Len(data)]]

TypeOK ==
    /\ selectedIndex \in 0..Max(MaxData, 2)
    /\ offset \in 0..MaxOffset
    /\ Cardinality(timers) <= MaxDrags

====
